---- MODULE Spec2Model ----
(***************************************************************************)
(* KeyBank (src/utils/key_bank.py): a pool of API keys, each with a token  *)
(* bucket, scheduled through a heap of (available_at, index, key), and the *)
(* retrying caller Chatbot._call_groq_with_retry (src/chatbot.py).         *)
(*                                                                         *)
(* Time is in whole seconds.  Arithmetic is exact: the token rate          *)
(* capacity/60 is kept as the pair (Capacity, Window).  The heap is kept   *)
(* as the sequence of its entries in ascending tuple order, which is what  *)
(* heapq's heappop / heappush / heapify make observable.                   *)
(***************************************************************************)
EXTENDS Integers, Sequences, FiniteSets, TLC

\* ---------------------------------------------------------------- bounds
\* credentials in the pool, permits per window, caller threads
NumKeys == 2
Capacity == 2
NumThreads == 2
\* time.time() at construction, the clock's step and how far it runs
Epoch == 100
TickStep == 15
Horizon == 30
\* get_key_with_index and penalize_key calls issued by direct callers, and the
\* largest `seconds` they pass
MaxAcq == 5
MaxPen == 2
MaxSeconds == 2
\* pool calls after which the other threads stop, while one thread runs a request
MaxEnvOps == 4
\* get_keybank calls per thread
MaxCalls == 2
\* acquires in a run of threads that only acquire
MaxLoad == 7
\* acquires called in a run checked for termination
MaxLive == 3
\* the arguments given to retry_with_key_rotation: max_attempts up to
\* MaxAttemptsArg, backoff and penalize_seconds in whole seconds
MaxAttemptsArg == 3
BackoffArg == 2
PenalizeSecondsArg == 2

\* ------------------------------------------------------- program constants
\* the window of the rate: tokens per second = capacity / 60
Window == 60
\* _call_groq_with_retry: max_attempts and the seconds it penalizes by
MaxAttempts == 3
FixedPenalty == 2
\* from_env: the default of GROQ_KEY_INTERVAL_SECONDS, as text and in tenths
DefaultIntervalText == "2"
DefaultInterval == 20

Threads == 1..NumThreads
KeyIdx == 0..(NumKeys - 1)
Free == 0

Max2(a, b) == IF a >= b THEN a ELSE b
Min2(a, b) == IF a <= b THEN a ELSE b

\* the secret configured at index i
KeyOf(i) == <<"key", i>>

\* ------------------------------------------------------------------ state
VARIABLES clock, tokens, last, heap, lock, pc, loc, inv, nAcq, nPen, penFloor,
          bank, single, hist

vars ==
    <<clock, tokens, last, heap, lock, pc, loc, inv, nAcq, nPen, penFloor,
      bank, single, hist>>

\* ------------------------------------------------------------------ heap
\* a heap keyed by the index alone
EntryLessByIndex(a, b) == a[2] < b[2]

\* Python's tuple order on (available_at, index, key)
EntryLess(a, b) ==
    \/ a[1] < b[1]
    \/ a[1] = b[1] /\ a[2] < b[2]

RECURSIVE InsertSorted(_, _)
InsertSorted(h, e) ==
    IF h = <<>> THEN <<e>>
    ELSE IF EntryLess(e, Head(h)) THEN <<e>> \o h
    ELSE <<Head(h)>> \o InsertSorted(Tail(h), e)

HeapPush(h, e) == InsertSorted(h, e)

RECURSIVE Heapify(_)
Heapify(h) ==
    IF h = <<>> THEN <<>> ELSE InsertSorted(Heapify(Tail(h)), Head(h))

\* heappop: the smallest entry, and the heap without it
HeapTop(h) == Head(h)
HeapRest(h) == Tail(h)

RECURSIVE MaxAvailable(_, _)
MaxAvailable(h, default) ==
    IF h = <<>> THEN default
    ELSE LET m == MaxAvailable(Tail(h), Head(h)[1])
         IN  Max2(Head(h)[1], m)

\* ------------------------------------------------------- token bucket
\* 1.0 / self._rate
InvRate == Window \div bank.capacity_int

\* the scheduled time ignored
WaitHeapNone(available_at, now) == 0

WaitHeap(available_at, now) == Max2(0, available_at - now)

RefillNow(available_at, now) ==
    IF WaitHeap(available_at, now) > 0 THEN available_at ELSE now

\* one token per second whatever the rate
AccruedPerSecond(now, lastv) == Max2(0, now - lastv)

\* a token credited for every period begun
AccruedCeil(now, lastv) ==
    (Max2(0, now - lastv) * bank.capacity_int + Window - 1) \div Window

Accrued(now, lastv) == (Max2(0, now - lastv) * bank.capacity_int) \div Window

\* int(delta * self._rate), delta * self._rate being a floating-point product:
\* where 60 / capacity has no exact binary form (capacity 7), a delta of whole
\* token periods gives a product just under the whole number and int() drops
\* to the number below; bank.products says which kind of capacity the pool has
Accruals(now, lastv) ==
    {Accrued(now, lastv)} \cup
    IF /\ bank.products = "short"
       /\ Accrued(now, lastv) >= 1
       /\ (Max2(0, now - lastv) * bank.capacity_int) % Window = 0
    THEN {Accrued(now, lastv) - 1}
    ELSE {}

\* a refill that is not capped
RefillTokensUncapped(tok, accrued) == tok + accrued

RefillTokens(tok, accrued) ==
    IF accrued > 0 THEN Min2(bank.capacity_int, tok + accrued) ELSE tok

\* last_refill_time left where it was
RefillLastKept(lastv, accrued) == lastv

RefillLast(lastv, accrued) ==
    IF accrued > 0
    THEN lastv + ((accrued * Window) \div bank.capacity_int)
    ELSE lastv

\* every token of the bucket taken at once
ConsumeTokensAll(tok) == IF tok >= 1 THEN 0 ELSE tok

ConsumeTokens(tok) == IF tok >= 1 THEN tok - 1 ELSE tok

\* no burst: every hand-out schedules the key one token period later
NextAvailableNoBurst(tok, lastv, now) == lastv + InvRate

NextAvailable(tok, lastv, now) ==
    IF tok >= 1
    THEN IF tok - 1 >= 1 THEN now ELSE lastv + InvRate
    ELSE lastv + InvRate

\* the branch taken evaluates 1.0 / self._rate while self._rate is 0.0
DividesByZero(tok) == bank.capacity_int = 0 /\ ~(tok >= 1 /\ tok - 1 >= 1)

WaitExtra(tok, lastv, now) ==
    IF tok >= 1 THEN 0 ELSE Max2(0, (lastv + InvRate) - now)

\* the token waited for is not reserved
ReserveLastKept(tok, lastv) == lastv

ReserveLast(tok, lastv) == IF tok >= 1 THEN lastv ELSE lastv + InvRate

\* a penalty counted from now whatever the key's scheduled time
BumpedToNow(available_at, now, current_max, seconds) == now + seconds

\* ------------------------------------------------------------- penalize
\* a penalty that forgets the seconds, and one that is a fixed offset from now
BumpedNoSeconds(available_at, now, current_max, seconds) ==
    Max2(Max2(available_at, now), current_max)

BumpedFromNow(available_at, now, current_max, seconds) ==
    Max2(available_at, now) + seconds

Bumped(available_at, now, current_max, seconds) ==
    Max2(Max2(available_at, now), current_max) + seconds

\* a scan that stops at the target
RECURSIVE PenalizeScanBreak(_, _, _, _, _, _)
\* a scan that bumps every entry
RECURSIVE PenalizeScanAll(_, _, _, _, _, _)
PenalizeScanAll(h, idx, now, current_max, seconds, found) ==
    IF h = <<>> THEN <<>>
    ELSE LET e == Head(h)
         IN  <<<<Bumped(e[1], now, current_max, seconds), e[2], e[3]>>>>
             \o PenalizeScanAll(Tail(h), idx, now, current_max, seconds, found)

PenalizeScanBreak(h, idx, now, current_max, seconds, found) ==
    IF h = <<>> THEN <<>>
    ELSE LET e == Head(h)
         IN  IF e[2] = idx
             THEN <<<<Bumped(e[1], now, current_max, seconds), e[2], e[3]>>>>
             ELSE <<e>> \o PenalizeScanBreak(Tail(h), idx, now, current_max, seconds, found)

RECURSIVE PenalizeScan(_, _, _, _, _, _)
PenalizeScan(h, idx, now, current_max, seconds, found) ==
    IF h = <<>> THEN <<>>
    ELSE LET e == Head(h)
             hit == e[2] = idx /\ ~found
         IN  <<IF hit THEN <<Bumped(e[1], now, current_max, seconds), e[2], e[3]>>
                      ELSE e>>
             \o PenalizeScan(Tail(h), idx, now, current_max, seconds, found \/ hit)

\* target_found after the scan
TargetFound(h, idx) == \E k \in 1..Len(h) : h[k][2] = idx

\* the second scan, for the key string of idx: <<k>> if an entry has it, <<>> if none
RECURSIVE KeyLookup(_, _)
KeyLookup(h, idx) ==
    IF h = <<>> THEN <<>>
    ELSE IF Head(h)[2] = idx THEN <<Head(h)[3]>> ELSE KeyLookup(Tail(h), idx)

\* `if not target_found and 0 <= idx < len(self._last)`: reinsert if the key is known
PenalizeReinsert(h, new_heap, idx, now, current_max, seconds) ==
    IF ~TargetFound(h, idx) /\ 0 <= idx /\ idx < NumKeys
    THEN LET key == KeyLookup(h, idx)
         IN  IF key = <<>> THEN new_heap
             ELSE Append(new_heap, <<Max2(now, current_max) + seconds, idx, key[1]>>)
    ELSE new_heap

\* the arguments direct callers pass to penalize_key: indexes in and out of
\* range, seconds positive and not
PenIdx == (-1)..NumKeys
PenSeconds == {-1, 0, MaxSeconds}

\* ------------------------------------------------- error classification
\* str(e) of the failures the external call raises
ErrorMessages ==
    {"Rate limit reached", "Request timed out.", "Connection error.", "Invalid API Key"}

\* str.lower()
Lower(m) ==
    CASE m = "Rate limit reached" -> "rate limit reached"
      [] m = "Request timed out." -> "request timed out."
      [] m = "Connection error." -> "connection error."
      [] m = "Invalid API Key" -> "invalid api key"
      [] OTHER -> m

\* the substrings (of those the code looks for) that occur in a text, case-sensitively
Found(m) ==
    CASE m = "rate limit reached" -> {"rate"}
      [] m = "Request timed out." -> {"timed out"}
      [] m = "request timed out." -> {"timed out"}
      [] m = "connection error." -> {"connection"}
      [] OTHER -> {}

IsRateLimit(error_msg) ==
    \/ "rate" \in Found(error_msg)
    \/ "quota" \in Found(error_msg)
    \/ "429" \in Found(error_msg)

\* only the word "timeout" is looked for
IsTimeoutOneWord(error_msg) == "timeout" \in Found(error_msg)

IsTimeout(error_msg) ==
    \/ "timeout" \in Found(error_msg)
    \/ "timed out" \in Found(error_msg)

\* everything is retried
IsRetryableAlways(e) == TRUE

\* nothing is retried
IsRetryableNever(e) == FALSE

\* chatbot.py: is_retryable of the caught exception e
IsRetryable(e) == IsRateLimit(Lower(e)) \/ IsTimeout(Lower(e))

\* a thread's locals in get_key_with_index / penalize_key; ord, pens and floor
\* record, for the acquire in progress, its rank among all acquires, the
\* penalize calls that preceded it and the penalty floor of the key it popped;
\* refilled is self._tokens[idx] as the refill left it, before the branch
NoLoc == [available_at |-> 0, idx |-> 0, key |-> <<>>, now |-> 0,
          wait_heap |-> 0, wait_extra |-> 0, wake |-> 0,
          ord |-> 0, pens |-> 0, floor |-> 0,
          pen_idx |-> 0, seconds |-> 0, new_heap |-> <<>>,
          next_time |-> 0, refilled |-> 0]

\* a thread's state in _call_groq_with_retry: the attempt, and per attempt the
\* key index acquired, the outcome of the external call and the index penalized
NoInv == [attempt |-> 0, keys |-> <<>>, outs |-> <<>>, pens |-> <<>>,
          e |-> "", result |-> "none", max_attempts |-> 0, kwargs |-> <<>>]

\* the module's globals _keybank_singleton (0 for None, else the rank of the
\* KeyBank object among those constructed) and _keybank_lock, the number of
\* KeyBank objects constructed by get_keybank, what each thread's calls of
\* get_keybank gave (0 for an exception), and the environment from_env reads
NoSingle == [instance |-> 0, lock |-> Free, made |-> 0,
             got |-> [t \in Threads |-> <<>>],
             env |-> [keys |-> 0, rate |-> "", interval |-> ""]]

\* what the constructor left: whether a pool exists, its number of keys,
\* self._capacity_int, and whether the products delta * self._rate are exact
Built(n, capacity) ==
    [built |-> "yes", keys |-> n, capacity_int |-> capacity, products |-> "exact"]

\* per key, the hand-outs so far: how many, the instant the latest one lets its
\* caller go (the clock read plus total_wait), and whether that acquire found
\* the key without tokens and came no later than the key's scheduled time
NoHist == [i \in KeyIdx |-> [n |-> 0, at |-> 0, slot |-> FALSE]]

InitHeap == Heapify([i \in 1..NumKeys |-> <<0, i - 1, KeyOf(i - 1)>>])

InitTokens == [i \in KeyIdx |-> Capacity]

Init ==
    /\ clock = Epoch
    /\ tokens = InitTokens
    /\ last = [i \in KeyIdx |-> Epoch]
    /\ heap = InitHeap
    /\ lock = Free
    /\ pc = [t \in Threads |-> "idle"]
    /\ loc = [t \in Threads |-> NoLoc]
    /\ inv = [t \in Threads |-> NoInv]
    /\ nAcq = 0
    /\ nPen = 0
    /\ penFloor = [i \in KeyIdx |-> 0]
    /\ bank = Built(NumKeys, Capacity)
    /\ single = NoSingle
    /\ hist = NoHist

\* the thread that runs a request in SpecInvoke; the others use the pool directly
Invokers == {1}
Callers == Threads \ Invokers

\* the lock kept across the wait and the call
ReleasedKept(t) == t

\* the lock a thread leaves behind when it exits `with self._lock`
Released(t) == Free

\* no mutual exclusion
CanLockAlways(t) == TRUE

\* `with self._lock` can be entered
CanLock(t) == lock = Free

\* the latest available_at among the entries of a non-empty heap
Busiest(h) ==
    CHOOSE m \in {h[k][1] : k \in 1..Len(h)} : \A k \in 1..Len(h) : h[k][1] <= m

RECURSIVE AvailableOf(_, _)
AvailableOf(h, i) ==
    IF h = <<>> THEN -1
    ELSE IF Head(h)[2] = i THEN Head(h)[1] ELSE AvailableOf(Tail(h), i)

\* ------------------------------------------------- get_key_with_index
\* with self._lock: heappop, now = time.time()
AcqEnter(t, from) ==
    /\ pc[t] = from
    /\ CanLock(t)
    /\ heap # <<>>
    /\ lock' = t
    /\ LET e == HeapTop(heap)
       IN  /\ heap' = HeapRest(heap)
           /\ loc' = [loc EXCEPT ![t] = [NoLoc EXCEPT !.available_at = e[1],
                                                     !.idx = e[2],
                                                     !.key = e[3],
                                                     !.now = clock,
                                                     !.ord = nAcq + 1,
                                                     !.pens = nPen,
                                                     !.floor = penFloor[e[2]]]]
    /\ nAcq' = nAcq + 1
    /\ pc' = [pc EXCEPT ![t] = "acq_cs"]
    /\ UNCHANGED <<clock, tokens, last, nPen, penFloor, bank, single, hist>>

\* a sleep for the token wait alone
TotalWaitExtraOnly(wait_heap, wait_extra) == wait_extra

TotalWait(wait_heap, wait_extra) == wait_heap + wait_extra

\* refill, consume or reserve, heappush, leave the lock
AcqUpdate(t) ==
    /\ pc[t] = "acq_cs"
    /\ LET l == loc[t]
           idx == l.idx
           now == RefillNow(l.available_at, l.now)
       IN  \E accrued \in Accruals(now, last[idx]) :
             LET tok == RefillTokens(tokens[idx], accrued)
                 lastv == RefillLast(last[idx], accrued)
                 wait_heap == WaitHeap(l.available_at, l.now)
                 wait_extra == WaitExtra(tok, lastv, now)
             IN  /\ ~DividesByZero(tok)
                 /\ tokens' = [tokens EXCEPT ![idx] = ConsumeTokens(tok)]
                 /\ last' = [last EXCEPT ![idx] = ReserveLast(tok, lastv)]
                 /\ heap' = HeapPush(heap,
                                <<NextAvailable(tok, lastv, now), idx, l.key>>)
                 /\ loc' = [loc EXCEPT ![t].wait_heap = wait_heap,
                                       ![t].wait_extra = wait_extra,
                                       ![t].refilled = tok]
                 /\ hist' = [hist EXCEPT ![idx] =
                              [n |-> @.n + 1,
                               at |-> l.now + TotalWait(wait_heap, wait_extra),
                               slot |-> tokens[idx] = 0
                                        /\ l.now <= l.available_at]]
    /\ lock' = Released(t)
    /\ pc' = [pc EXCEPT ![t] = "acq_unlocked"]
    /\ UNCHANGED <<clock, inv, nAcq, nPen, penFloor, bank, single>>

\* 1.0 / self._rate raises ZeroDivisionError inside `with self._lock`: the lock
\* is left, the entry popped is not pushed back, the caller gets the exception
AcqRaise(t) ==
    /\ pc[t] = "acq_cs"
    /\ LET l == loc[t]
           idx == l.idx
           now == RefillNow(l.available_at, l.now)
           accrued == Accrued(now, last[idx])
           tok == RefillTokens(tokens[idx], accrued)
           lastv == RefillLast(last[idx], accrued)
       IN  /\ DividesByZero(tok)
           /\ tokens' = [tokens EXCEPT ![idx] = ConsumeTokens(tok)]
           /\ last' = [last EXCEPT ![idx] = lastv]
           /\ loc' = [loc EXCEPT ![t].refilled = tok]
    /\ lock' = Released(t)
    /\ pc' = [pc EXCEPT ![t] = "acq_raised"]
    /\ UNCHANGED <<clock, heap, inv, nAcq, nPen, penFloor, bank, single, hist>>

\* the sleep taken from the heap as it is once the lock has been left
AcqSleepPeeked(t) ==
    /\ pc[t] = "acq_unlocked"
    /\ LET total_wait == Max2(0, heap[1][1] - clock)
       IN  IF total_wait > 0
           THEN /\ loc' = [loc EXCEPT ![t].wake = clock + total_wait]
                /\ pc' = [pc EXCEPT ![t] = "acq_sleeping"]
           ELSE /\ loc' = loc
                /\ pc' = [pc EXCEPT ![t] = "acq_ret"]
    /\ UNCHANGED <<clock, tokens, last, heap, lock, inv, nAcq, nPen, penFloor, bank, single, hist>>

\* total_wait > 0: time.sleep(total_wait) begins; otherwise return at once
AcqSleep(t) ==
    /\ pc[t] = "acq_unlocked"
    /\ LET total_wait == TotalWait(loc[t].wait_heap, loc[t].wait_extra)
       IN  IF total_wait > 0
           THEN /\ loc' = [loc EXCEPT ![t].wake = clock + total_wait]
                /\ pc' = [pc EXCEPT ![t] = "acq_sleeping"]
           ELSE /\ loc' = loc
                /\ pc' = [pc EXCEPT ![t] = "acq_ret"]
    /\ UNCHANGED <<clock, tokens, last, heap, lock, inv, nAcq, nPen, penFloor, bank, single, hist>>

\* time.sleep returns no earlier than asked
AcqWake(t) ==
    /\ pc[t] = "acq_sleeping"
    /\ clock >= loc[t].wake
    /\ pc' = [pc EXCEPT ![t] = "acq_ret"]
    /\ UNCHANGED <<clock, tokens, last, heap, lock, loc, inv, nAcq, nPen, penFloor, bank, single, hist>>

\* seconds <= 0 applied as a penalty all the same
PenSkipApplied(t, from, idx, seconds) ==
    /\ pc[t] = from
    /\ seconds <= 0
    /\ nPen' = nPen + 1
    /\ heap' = Heapify(PenalizeScan(heap, idx, clock, MaxAvailable(heap, clock),
                                    seconds, FALSE))
    /\ loc' = [loc EXCEPT ![t] = [NoLoc EXCEPT !.idx = loc[t].idx,
                                               !.pen_idx = idx,
                                               !.seconds = seconds]]
    /\ pc' = [pc EXCEPT ![t] = "pen_ret"]
    /\ UNCHANGED <<clock, tokens, last, lock, nAcq, penFloor, bank, single, hist>>

\* ------------------------------------------------------------ penalize_key
\* seconds <= 0: return
PenSkip(t, from, idx, seconds) ==
    /\ pc[t] = from
    /\ seconds <= 0
    /\ nPen' = nPen + 1
    /\ loc' = [loc EXCEPT ![t] = [NoLoc EXCEPT !.idx = loc[t].idx,
                                               !.pen_idx = idx,
                                               !.seconds = seconds]]
    /\ pc' = [pc EXCEPT ![t] = "pen_ret"]
    /\ UNCHANGED <<clock, tokens, last, heap, lock, nAcq, penFloor, bank, single, hist>>

\* with self._lock: now, current_max_available, the scan that builds new_heap
PenEnter(t, from, idx, seconds) ==
    /\ pc[t] = from
    /\ seconds > 0
    /\ CanLock(t)
    /\ lock' = t
    /\ LET current_max == MaxAvailable(heap, clock)
       IN  loc' = [loc EXCEPT ![t] =
                     [NoLoc EXCEPT !.idx = loc[t].idx,
                                   !.pen_idx = idx,
                                   !.seconds = seconds,
                                   !.now = clock,
                                   !.new_heap =
                                       PenalizeReinsert(heap,
                                           PenalizeScan(heap, idx, clock,
                                               current_max, seconds, FALSE),
                                           idx, clock, current_max, seconds)]]
    /\ nPen' = nPen + 1
    /\ pc' = [pc EXCEPT ![t] = "pen_cs"]
    /\ UNCHANGED <<clock, tokens, last, heap, nAcq, penFloor, bank, single, hist>>

\* the heap replaced and the lock never left
PenCommitLocked(t) ==
    /\ pc[t] = "pen_cs"
    /\ heap' = Heapify(loc[t].new_heap)
    /\ lock' = t
    /\ LET i == loc[t].pen_idx
       IN  penFloor' = IF i \in KeyIdx /\ heap # <<>>
                       THEN [penFloor EXCEPT
                               ![i] = Max2(@, Busiest(heap) + loc[t].seconds)]
                       ELSE penFloor
    /\ pc' = [pc EXCEPT ![t] = "pen_ret"]
    /\ UNCHANGED <<clock, tokens, last, loc, inv, nAcq, nPen, bank, single, hist>>

\* heapify(new_heap); self._heap = new_heap; leave the lock
PenCommit(t) ==
    /\ pc[t] = "pen_cs"
    /\ heap' = Heapify(loc[t].new_heap)
    /\ lock' = Released(t)
    /\ LET i == loc[t].pen_idx
       IN  penFloor' = IF i \in KeyIdx /\ heap # <<>>
                       THEN [penFloor EXCEPT
                               ![i] = Max2(@, Busiest(heap) + loc[t].seconds)]
                       ELSE penFloor
    /\ pc' = [pc EXCEPT ![t] = "pen_ret"]
    /\ UNCHANGED <<clock, tokens, last, loc, inv, nAcq, nPen, bank, single, hist>>

\* --------------------------------------------- peek_best_time, peek_best_key
\* the last entry of the heap
PeekEntryLast(h) == h[Len(h)]

\* self._heap[0]
PeekEntry(h) == h[1]

\* with self._lock: next_time, _, _ = self._heap[0]; return next_time
PeekBestTime(t) ==
    /\ pc[t] = "idle"
    /\ CanLock(t)
    /\ heap # <<>>
    /\ loc' = [loc EXCEPT ![t] = [NoLoc EXCEPT !.next_time = PeekEntry(heap)[1],
                                               !.ord = nAcq,
                                               !.pens = nPen]]
    /\ pc' = [pc EXCEPT ![t] = "peek_time_ret"]
    /\ UNCHANGED <<clock, tokens, last, heap, lock, inv, nAcq, nPen, penFloor, bank, single, hist>>

\* with self._lock: _, _, key = self._heap[0]; return key
PeekBestKey(t) ==
    /\ pc[t] = "idle"
    /\ CanLock(t)
    /\ heap # <<>>
    /\ loc' = [loc EXCEPT ![t] = [NoLoc EXCEPT !.key = PeekEntry(heap)[3],
                                               !.ord = nAcq,
                                               !.pens = nPen]]
    /\ pc' = [pc EXCEPT ![t] = "peek_key_ret"]
    /\ UNCHANGED <<clock, tokens, last, heap, lock, inv, nAcq, nPen, penFloor, bank, single, hist>>

PeekReturn(t) ==
    /\ pc[t] \in {"peek_time_ret", "peek_key_ret"}
    /\ pc' = [pc EXCEPT ![t] = "idle"]
    /\ loc' = [loc EXCEPT ![t] = NoLoc]
    /\ UNCHANGED <<clock, tokens, last, heap, lock, inv, nAcq, nPen, penFloor, bank, single, hist>>

\* ------------------------------------------- callers that use the pool directly
DirectAcquire(t) ==
    /\ nAcq < MaxAcq
    /\ AcqEnter(t, "idle")
    /\ UNCHANGED inv

AcqReturn(t) ==
    /\ pc[t] = "acq_ret"
    /\ pc' = [pc EXCEPT ![t] = "idle"]
    /\ loc' = [loc EXCEPT ![t] = NoLoc]
    /\ UNCHANGED <<clock, tokens, last, heap, lock, inv, nAcq, nPen, penFloor, bank, single, hist>>

DirectPenalize(t, idx, seconds) ==
    /\ nPen < MaxPen
    /\ PenEnter(t, "idle", idx, seconds)
    /\ UNCHANGED inv

DirectPenalizeSkip(t, idx, seconds) ==
    /\ nPen < MaxPen
    /\ PenSkip(t, "idle", idx, seconds)
    /\ UNCHANGED inv

PenReturn(t) ==
    /\ pc[t] = "pen_ret"
    /\ pc' = [pc EXCEPT ![t] = "idle"]
    /\ loc' = [loc EXCEPT ![t] = NoLoc]
    /\ UNCHANGED <<clock, tokens, last, heap, lock, inv, nAcq, nPen, penFloor, bank, single, hist>>

\* ------------------------------------------ Chatbot._call_groq_with_retry
\* chat() calls _call_groq_with_retry(messages, key_index=0): attempt = 1
InvokeStart(t) ==
    /\ pc[t] = "idle"
    /\ inv' = [inv EXCEPT ![t] = [NoInv EXCEPT !.attempt = 1]]
    /\ pc' = [pc EXCEPT ![t] = "attempting"]
    /\ UNCHANGED <<clock, tokens, last, heap, lock, loc, nAcq, nPen, penFloor, bank, single, hist>>

\* groq_key, key_idx = self.keybank.get_key_with_index("chat")
InvAcquire(t) ==
    /\ AcqEnter(t, "attempting")
    /\ UNCHANGED inv

\* a returned call handled by the except block
CallOkPenalized(t) ==
    /\ pc[t] = "acq_ret"
    /\ inv' = [inv EXCEPT ![t].keys = Append(@, loc[t].idx),
                          ![t].outs = Append(@, "ok"),
                          ![t].result = "ok"]
    /\ pc' = [pc EXCEPT ![t] = "except"]
    /\ UNCHANGED <<clock, tokens, last, heap, lock, loc, nAcq, nPen, penFloor, bank, single, hist>>

\* the external call returns
CallOk(t) ==
    /\ pc[t] = "acq_ret"
    /\ inv' = [inv EXCEPT ![t].keys = Append(@, loc[t].idx),
                          ![t].outs = Append(@, "ok"),
                          ![t].result = "ok"]
    /\ pc' = [pc EXCEPT ![t] = "succeeded"]
    /\ UNCHANGED <<clock, tokens, last, heap, lock, loc, nAcq, nPen, penFloor, bank, single, hist>>

\* the external call raises e
CallFails(t, e) ==
    /\ pc[t] = "acq_ret"
    /\ inv' = [inv EXCEPT ![t].keys = Append(@, loc[t].idx),
                          ![t].outs = Append(@, e),
                          ![t].e = e]
    /\ pc' = [pc EXCEPT ![t] = "except"]
    /\ UNCHANGED <<clock, tokens, last, heap, lock, loc, nAcq, nPen, penFloor, bank, single, hist>>

\* except: self.keybank.penalize_key(key_idx, seconds=2.0)
InvPenalize(t) ==
    /\ PenEnter(t, "except", loc[t].idx, FixedPenalty)
    /\ inv' = [inv EXCEPT ![t].pens = Append(@, loc[t].idx)]

\* one attempt too many
InvRetryOneMore(t) ==
    /\ pc[t] = "pen_ret"
    /\ IsRetryable(inv[t].e) /\ inv[t].attempt <= MaxAttempts
    /\ inv' = [inv EXCEPT ![t].attempt = @ + 1]
    /\ pc' = [pc EXCEPT ![t] = "attempting"]
    /\ UNCHANGED <<clock, tokens, last, heap, lock, loc, nAcq, nPen, penFloor, bank, single, hist>>

\* is_retryable and attempt < max_attempts: the recursive call, attempt + 1
InvRetry(t) ==
    /\ pc[t] = "pen_ret"
    /\ IsRetryable(inv[t].e) /\ inv[t].attempt < MaxAttempts
    /\ inv' = [inv EXCEPT ![t].attempt = @ + 1]
    /\ pc' = [pc EXCEPT ![t] = "attempting"]
    /\ UNCHANGED <<clock, tokens, last, heap, lock, loc, nAcq, nPen, penFloor, bank, single, hist>>

\* a failure that returns None instead of raising
InvRaiseNone(t) ==
    /\ pc[t] = "pen_ret"
    /\ ~(IsRetryable(inv[t].e) /\ inv[t].attempt < MaxAttempts)
    /\ inv' = [inv EXCEPT ![t].result = "none"]
    /\ pc' = [pc EXCEPT ![t] = "failed"]
    /\ UNCHANGED <<clock, tokens, last, heap, lock, loc, nAcq, nPen, penFloor, bank, single, hist>>

\* the raise caught again by the except block of the first attempt, which
\* penalizes that attempt's key once more
InvRaiseThroughExcept(t) ==
    /\ pc[t] = "pen_ret"
    /\ ~(IsRetryable(inv[t].e) /\ inv[t].attempt < MaxAttempts)
    /\ inv' = [inv EXCEPT ![t].result = inv[t].e,
                          ![t].pens = IF inv[t].attempt > 1
                                      THEN Append(@, inv[t].keys[1])
                                      ELSE @]
    /\ pc' = [pc EXCEPT ![t] = "failed"]
    /\ UNCHANGED <<clock, tokens, last, heap, lock, loc, nAcq, nPen, penFloor, bank, single, hist>>

\* otherwise: raise, through every enclosing attempt's frame
InvRaise(t) ==
    /\ pc[t] = "pen_ret"
    /\ ~(IsRetryable(inv[t].e) /\ inv[t].attempt < MaxAttempts)
    /\ inv' = [inv EXCEPT ![t].result = inv[t].e]
    /\ pc' = [pc EXCEPT ![t] = "failed"]
    /\ UNCHANGED <<clock, tokens, last, heap, lock, loc, nAcq, nPen, penFloor, bank, single, hist>>

\* chat(): the dict returned when _call_groq_with_retry raised e, its error
\* text as the pieces of the f-string
ChatError(e) ==
    [error |-> <<"Error generating response: ", e>>, status |-> "error"]

\* the other threads, while one thread runs a request
EnvAcquire(t) ==
    /\ nAcq + nPen < MaxEnvOps
    /\ DirectAcquire(t)

EnvPenalize(t, idx) ==
    /\ nAcq + nPen < MaxEnvOps
    /\ DirectPenalize(t, idx, FixedPenalty)

\* ------------------------------------------------------------------ time
Tick ==
    /\ clock + TickStep <= Epoch + Horizon
    /\ clock' = clock + TickStep
    /\ UNCHANGED <<tokens, last, heap, lock, pc, loc, inv, nAcq, nPen, penFloor, bank, single, hist>>

\* threads calling get_key_with_index and penalize_key themselves
Next ==
    \/ \E t \in Threads : DirectAcquire(t)
    \/ \E t \in Threads : AcqUpdate(t)
    \/ \E t \in Threads : AcqSleep(t)
    \/ \E t \in Threads : AcqWake(t)
    \/ \E t \in Threads : AcqReturn(t)
    \/ \E t \in Threads, i \in PenIdx, s \in PenSeconds : DirectPenalizeSkip(t, i, s)
    \/ \E t \in Threads, i \in PenIdx, s \in PenSeconds : DirectPenalize(t, i, s)
    \/ \E t \in Threads : PenCommit(t)
    \/ \E t \in Threads : PenReturn(t)
    \/ \E t \in Threads : PeekBestTime(t)
    \/ \E t \in Threads : PeekBestKey(t)
    \/ \E t \in Threads : PeekReturn(t)
    \/ Tick

Spec == Init /\ [][Next]_vars

\* one thread running _call_groq_with_retry while the others use the pool
NextInvoke ==
    \/ \E t \in Invokers : InvokeStart(t)
    \/ \E t \in Invokers : InvAcquire(t)
    \/ \E t \in Threads : AcqUpdate(t)
    \/ \E t \in Threads : AcqSleep(t)
    \/ \E t \in Threads : AcqWake(t)
    \/ \E t \in Invokers : CallOk(t)
    \/ \E t \in Invokers, e \in ErrorMessages : CallFails(t, e)
    \/ \E t \in Invokers : InvPenalize(t)
    \/ \E t \in Threads : PenCommit(t)
    \/ \E t \in Invokers : InvRetry(t)
    \/ \E t \in Invokers : InvRaise(t)
    \/ \E t \in Callers : EnvAcquire(t)
    \/ \E t \in Callers : AcqReturn(t)
    \/ \E t \in Callers, i \in KeyIdx : EnvPenalize(t, i)
    \/ \E t \in Callers : PenReturn(t)
    \/ Tick

SpecInvoke == Init /\ [][NextInvoke]_vars

\* ------------------------------------------------------- KeyBank.__init__
\* per_key_rate_per_min is given in halves, NoRate for None;
\* per_key_interval_seconds in tenths of a second
NoRate == -1

\* int(x) of x >= 0 given in halves
IntOfHalves(h) == h \div 2

\* round(a / b), halves upwards
RoundDivHalfUp(a, b) ==
    LET q == a \div b
        r == a % b
    IN  IF 2 * r < b THEN q ELSE q + 1

\* round(a / b), halves to the even neighbour
RoundDiv(a, b) ==
    LET q == a \div b
        r == a % b
    IN  IF 2 * r < b THEN q
        ELSE IF 2 * r > b THEN q + 1
        ELSE IF q % 2 = 0 THEN q ELSE q + 1

\* self._capacity_int
CapacityInt(rate_halves, interval_tenths) ==
    IF rate_halves # NoRate /\ rate_halves > 0
    THEN IntOfHalves(rate_halves)
    ELSE Max2(1, RoundDiv(10 * Window, Max2(1, interval_tenths)))

\* the arguments the constructor is called with: zero keys up to NumKeys;
\* no rate, 0.5 per minute, Capacity and Capacity + 0.5 per minute; the
\* interval that makes Capacity per minute
BuildKeys == 0..NumKeys
BuildRates == {NoRate, 1, 2 * Capacity, 2 * Capacity + 1}
BuildIntervals == {(10 * Window) \div Capacity}

\* buckets that start empty
FullTokensEmpty(n, capacity) == [i \in 0..(n - 1) |-> 0]

\* self._tokens = [float(self._capacity_int)] * n
FullTokens(n, capacity) == [i \in 0..(n - 1) |-> capacity]

NotBuilt == [built |-> "no", keys |-> 0, capacity_int |-> 0, products |-> "exact"]

InitBuild ==
    /\ clock = Epoch
    /\ tokens = <<>>
    /\ last = <<>>
    /\ heap = <<>>
    /\ lock = Free
    /\ pc = [t \in Threads |-> "idle"]
    /\ loc = [t \in Threads |-> NoLoc]
    /\ inv = [t \in Threads |-> NoInv]
    /\ nAcq = 0
    /\ nPen = 0
    /\ penFloor = [i \in KeyIdx |-> 0]
    /\ bank = NotBuilt
    /\ single = NoSingle
    /\ hist = NoHist

\* KeyBank(keys, per_key_interval_seconds, per_key_rate_per_min), keys being
\* the first n configured secrets
Construct(n, rate_halves, interval_tenths) ==
    /\ bank = NotBuilt
    /\ IF n = 0
       THEN /\ bank' = [NotBuilt EXCEPT !.built = "ValueError"]
            /\ UNCHANGED <<tokens, last, heap, hist>>
       ELSE /\ bank' = Built(n, CapacityInt(rate_halves, interval_tenths))
            /\ tokens' = FullTokens(n, CapacityInt(rate_halves, interval_tenths))
            /\ last' = [i \in 0..(n - 1) |-> clock]
            /\ heap' = Heapify([i \in 1..n |-> <<0, i - 1, KeyOf(i - 1)>>])
    /\ UNCHANGED <<clock, lock, pc, loc, inv, nAcq, nPen, penFloor, single, hist>>

\* get_key_with_index on the pool the constructor returned
BuiltAcquire(t) ==
    /\ bank.built = "yes"
    /\ DirectAcquire(t)

\* heappop on a heap that has lost its entries raises IndexError
AcqPopEmpty(t) ==
    /\ bank.built = "yes"
    /\ nAcq < MaxAcq
    /\ pc[t] = "idle"
    /\ CanLock(t)
    /\ heap = <<>>
    /\ nAcq' = nAcq + 1
    /\ pc' = [pc EXCEPT ![t] = "acq_raised"]
    /\ UNCHANGED <<clock, tokens, last, heap, lock, loc, inv, nPen, penFloor, bank, single, hist>>

\* a pool constructed from any of the arguments, then used for acquires
NextBuild ==
    \/ \E n \in BuildKeys, r \in BuildRates, s \in BuildIntervals : Construct(n, r, s)
    \/ \E t \in Threads : BuiltAcquire(t)
    \/ \E t \in Threads : AcqPopEmpty(t)
    \/ \E t \in Threads : AcqUpdate(t)
    \/ \E t \in Threads : AcqRaise(t)
    \/ \E t \in Threads : AcqSleep(t)
    \/ \E t \in Threads : AcqWake(t)
    \/ \E t \in Threads : AcqReturn(t)
    \/ Tick

SpecBuild == InitBuild /\ [][NextBuild]_vars

\* ------------------------------------------------- from_env, get_keybank
\* the texts the environment variables hold, "" for unset or blank
RateTexts == {"", "abc", "0", "0.5", "2", "2.5"}
IntervalTexts == {"", "abc", "-1", "0", "24", "30", "40", "200"}

\* float(text) succeeds
IsFloat(text) == text \in {"-1", "0", "0.5", "2", "2.5", "24", "30", "40", "200"}

\* float(text), in halves
HalvesOf(text) ==
    CASE text = "-1" -> -2
      [] text = "0" -> 0
      [] text = "0.5" -> 1
      [] text = "2" -> 4
      [] text = "2.5" -> 5
      [] text = "24" -> 48
      [] text = "30" -> 60
      [] text = "40" -> 80
      [] text = "200" -> 400
      [] OTHER -> 0

\* float(text), in tenths
TenthsOf(text) == 5 * HalvesOf(text)

\* interval = float(os.getenv("GROQ_KEY_INTERVAL_SECONDS", "2")), 2.0 on ValueError
EnvInterval(text) ==
    IF text = "" THEN TenthsOf(DefaultIntervalText)
    ELSE IF IsFloat(text) THEN TenthsOf(text) ELSE DefaultInterval

\* rate_per_min: None when unset or blank, on a failed float(), and when <= 0
EnvRate(text) ==
    IF text = "" \/ ~IsFloat(text) THEN NoRate
    ELSE IF HalvesOf(text) <= 0 THEN NoRate ELSE HalvesOf(text)

\* no KeyBank for this module yet; the environment is any of the settings
InitEnv ==
    /\ clock = Epoch
    /\ tokens = <<>>
    /\ last = <<>>
    /\ heap = <<>>
    /\ lock = Free
    /\ pc = [t \in Threads |-> "idle"]
    /\ loc = [t \in Threads |-> NoLoc]
    /\ inv = [t \in Threads |-> NoInv]
    /\ nAcq = 0
    /\ nPen = 0
    /\ penFloor = [i \in KeyIdx |-> 0]
    /\ bank = NotBuilt
    /\ hist = NoHist
    /\ \E n \in BuildKeys, r \in RateTexts, s \in IntervalTexts :
         single = [NoSingle EXCEPT !.env = [keys |-> n, rate |-> r, interval |-> s]]

\* the second test is left out
SecondCheckSkipped(instance) == TRUE

\* `if _keybank_singleton is None`, inside `with _keybank_lock`
SecondCheck(instance) == instance = 0

\* get_keybank(): `if _keybank_singleton is None` read without the lock
GkFirstCheck(t) ==
    /\ pc[t] = "idle"
    /\ Len(single.got[t]) < MaxCalls
    /\ pc' = [pc EXCEPT ![t] = IF single.instance = 0 THEN "gk_wait" ELSE "gk_ret"]
    /\ UNCHANGED <<clock, tokens, last, heap, lock, loc, inv, nAcq, nPen, penFloor,
                   bank, single, hist>>

\* with _keybank_lock
GkLock(t) ==
    /\ pc[t] = "gk_wait"
    /\ single.lock = Free
    /\ single' = [single EXCEPT !.lock = t]
    /\ pc' = [pc EXCEPT ![t] = "gk_locked"]
    /\ UNCHANGED <<clock, tokens, last, heap, lock, loc, inv, nAcq, nPen, penFloor,
                   bank, hist>>

\* the test under the lock: someone else has made the KeyBank, leave the lock
GkFound(t) ==
    /\ pc[t] = "gk_locked"
    /\ ~SecondCheck(single.instance)
    /\ single' = [single EXCEPT !.lock = Free]
    /\ pc' = [pc EXCEPT ![t] = "gk_ret"]
    /\ UNCHANGED <<clock, tokens, last, heap, lock, loc, inv, nAcq, nPen, penFloor,
                   bank, hist>>

\* from_env() finds no key: EnvironmentError leaves the lock and the call
GkNoKeys(t) ==
    /\ pc[t] = "gk_locked"
    /\ SecondCheck(single.instance)
    /\ single.env.keys = 0
    /\ single' = [single EXCEPT !.lock = Free, !.got[t] = Append(@, 0)]
    /\ pc' = [pc EXCEPT ![t] = "idle"]
    /\ UNCHANGED <<clock, tokens, last, heap, lock, loc, inv, nAcq, nPen, penFloor,
                   bank, hist>>

\* _keybank_singleton = KeyBank.from_env(): the constructor runs on what the
\* environment holds, the new object is assigned, the lock is left
GkBuild(t) ==
    /\ pc[t] = "gk_locked"
    /\ SecondCheck(single.instance)
    /\ single.env.keys > 0
    /\ LET n == single.env.keys
           capacity == CapacityInt(EnvRate(single.env.rate),
                                   EnvInterval(single.env.interval))
       IN  /\ bank' = Built(n, capacity)
           /\ tokens' = FullTokens(n, capacity)
           /\ last' = [i \in 0..(n - 1) |-> clock]
           /\ heap' = Heapify([i \in 1..n |-> <<0, i - 1, KeyOf(i - 1)>>])
    /\ single' = [single EXCEPT !.lock = Free,
                                !.made = @ + 1,
                                !.instance = single.made + 1]
    /\ pc' = [pc EXCEPT ![t] = "gk_ret"]
    /\ UNCHANGED <<clock, lock, loc, inv, nAcq, nPen, penFloor, hist>>

\* return _keybank_singleton
GkReturn(t) ==
    /\ pc[t] = "gk_ret"
    /\ single' = [single EXCEPT !.got[t] = Append(@, single.instance)]
    /\ pc' = [pc EXCEPT ![t] = "idle"]
    /\ UNCHANGED <<clock, tokens, last, heap, lock, loc, inv, nAcq, nPen, penFloor,
                   bank, hist>>

\* threads calling get_keybank, in any environment
NextEnv ==
    \/ \E t \in Threads : GkFirstCheck(t)
    \/ \E t \in Threads : GkLock(t)
    \/ \E t \in Threads : GkFound(t)
    \/ \E t \in Threads : GkNoKeys(t)
    \/ \E t \in Threads : GkBuild(t)
    \/ \E t \in Threads : GkReturn(t)

SpecEnv == InitEnv /\ [][NextEnv]_vars

\* ------------------------------------------- threads that only acquire
\* a pool whose capacity makes the products delta * self._rate inexact
InitLoad ==
    /\ clock = Epoch
    /\ tokens = InitTokens
    /\ last = [i \in KeyIdx |-> Epoch]
    /\ heap = InitHeap
    /\ lock = Free
    /\ pc = [t \in Threads |-> "idle"]
    /\ loc = [t \in Threads |-> NoLoc]
    /\ inv = [t \in Threads |-> NoInv]
    /\ nAcq = 0
    /\ nPen = 0
    /\ penFloor = [i \in KeyIdx |-> 0]
    /\ bank = [Built(NumKeys, Capacity) EXCEPT !.products = "short"]
    /\ single = NoSingle
    /\ hist = NoHist

LoadAcquire(t) ==
    /\ nAcq < MaxLoad
    /\ AcqEnter(t, "idle")
    /\ UNCHANGED inv

NextLoad ==
    \/ \E t \in Threads : LoadAcquire(t)
    \/ \E t \in Threads : AcqUpdate(t)
    \/ \E t \in Threads : AcqSleep(t)
    \/ \E t \in Threads : AcqWake(t)
    \/ \E t \in Threads : AcqReturn(t)
    \/ Tick

SpecLoad == InitLoad /\ [][NextLoad]_vars

\* ------------------------- acquires that have been called, under fairness
\* get_key_with_index is called: the thread stands before `with self._lock`
LiveCall(t) ==
    /\ pc[t] = "idle"
    /\ nAcq < MaxLive
    /\ pc' = [pc EXCEPT ![t] = "calling"]
    /\ UNCHANGED <<clock, tokens, last, heap, lock, loc, inv, nAcq, nPen, penFloor, bank, single, hist>>

LiveAcquire(t) ==
    /\ AcqEnter(t, "calling")
    /\ UNCHANGED inv

\* time passes, beyond the horizon too while a sleeping thread waits for it
TickLive ==
    /\ \/ clock + TickStep <= Epoch + Horizon
       \/ \E t \in Threads : pc[t] = "acq_sleeping" /\ loc[t].wake > clock
    /\ clock' = clock + TickStep
    /\ UNCHANGED <<tokens, last, heap, lock, pc, loc, inv, nAcq, nPen, penFloor, bank, single, hist>>

NextLive ==
    \/ \E t \in Threads : LiveCall(t)
    \/ \E t \in Threads : LiveAcquire(t)
    \/ \E t \in Threads : AcqUpdate(t)
    \/ \E t \in Threads : AcqSleep(t)
    \/ \E t \in Threads : AcqWake(t)
    \/ \E t \in Threads : AcqReturn(t)
    \/ \E t \in Threads, i \in KeyIdx : DirectPenalize(t, i, FixedPenalty)
    \/ \E t \in Threads : PenCommit(t)
    \/ \E t \in Threads : PenReturn(t)
    \/ TickLive

\* every thread goes on with the call it is in, the lock is granted to a
\* thread that keeps asking for it, and time passes
FairLive ==
    /\ \A t \in Threads :
          /\ SF_vars(LiveAcquire(t))
          /\ WF_vars(AcqUpdate(t))
          /\ WF_vars(AcqSleep(t))
          /\ WF_vars(AcqWake(t))
          /\ WF_vars(PenCommit(t))
    /\ WF_vars(TickLive)

SpecLive == Init /\ [][NextLive]_vars /\ FairLive

\* ------------------------------ error_handler.py: retry_with_key_rotation
\* is_retryable of the decorator
IsRetryableRotation(e) ==
    \/ IsRateLimit(Lower(e))
    \/ IsTimeout(Lower(e))
    \/ "connection" \in Found(Lower(e))
    \/ "network" \in Found(Lower(e))

\* the test that lets the last attempt through to one more
LastAttemptNever(attempt, max_attempts) == attempt = max_attempts

\* attempt == max_attempts - 1, attempt counting from 0
LastAttempt(attempt, max_attempts) == attempt = max_attempts - 1

\* the keyword arguments of the wrapped call: none, or key_index = i
KwargsArgs == {<<>>} \cup {<<i>> : i \in KeyIdx}

\* wrapper(*args, **kwargs) is called: keybank = get_keybank(), attempt = 0
RwStart(t, m, kw) ==
    /\ pc[t] = "idle"
    /\ inv' = [inv EXCEPT ![t] = [NoInv EXCEPT !.max_attempts = m, !.kwargs = kw]]
    /\ pc' = [pc EXCEPT ![t] = "rw_try"]
    /\ UNCHANGED <<clock, tokens, last, heap, lock, loc, nAcq, nPen, penFloor, bank, single, hist>>

\* result = func(*args, **kwargs); return result
RwCallOk(t) ==
    /\ pc[t] = "rw_try"
    /\ inv' = [inv EXCEPT ![t].outs = Append(@, "ok"), ![t].result = "ok"]
    /\ pc' = [pc EXCEPT ![t] = "rw_returned"]
    /\ UNCHANGED <<clock, tokens, last, heap, lock, loc, nAcq, nPen, penFloor, bank, single, hist>>

\* func raises e
RwCallFails(t, e) ==
    /\ pc[t] = "rw_try"
    /\ inv' = [inv EXCEPT ![t].outs = Append(@, e), ![t].e = e]
    /\ pc' = [pc EXCEPT ![t] = "rw_except"]
    /\ UNCHANGED <<clock, tokens, last, heap, lock, loc, nAcq, nPen, penFloor, bank, single, hist>>

\* `if not is_retryable or attempt == max_attempts - 1: raise`
RwRaises(t) ==
    \/ ~IsRetryableRotation(inv[t].e)
    \/ LastAttempt(inv[t].attempt, inv[t].max_attempts)

RwRaise(t) ==
    /\ pc[t] = "rw_except"
    /\ RwRaises(t)
    /\ inv' = [inv EXCEPT ![t].result = inv[t].e]
    /\ pc' = [pc EXCEPT ![t] = "rw_raised"]
    /\ UNCHANGED <<clock, tokens, last, heap, lock, loc, nAcq, nPen, penFloor, bank, single, hist>>

\* `if 'key_index' in kwargs`: keybank.penalize_key(key_idx, penalize_seconds)
RwPenalize(t) ==
    /\ ~RwRaises(t)
    /\ inv[t].kwargs # <<>>
    /\ PenEnter(t, "rw_except", inv[t].kwargs[1], PenalizeSecondsArg)
    /\ inv' = [inv EXCEPT ![t].pens = Append(@, inv[t].kwargs[1])]

\* wait_time = backoff ** attempt; time.sleep(wait_time) begins, after the
\* penalize or, without key_index, at once
RwSleep(t) ==
    /\ \/ pc[t] = "pen_ret"
       \/ pc[t] = "rw_except" /\ ~RwRaises(t) /\ inv[t].kwargs = <<>>
    /\ loc' = [loc EXCEPT ![t].wake = clock + BackoffArg ^ inv[t].attempt]
    /\ pc' = [pc EXCEPT ![t] = "rw_sleeping"]
    /\ UNCHANGED <<clock, tokens, last, heap, lock, inv, nAcq, nPen, penFloor, bank, single, hist>>

\* the sleep is over: the next round of `for attempt in range(max_attempts)`
RwWake(t) ==
    /\ pc[t] = "rw_sleeping"
    /\ clock >= loc[t].wake
    /\ inv' = [inv EXCEPT ![t].attempt = @ + 1]
    /\ pc' = [pc EXCEPT ![t] = "rw_try"]
    /\ UNCHANGED <<clock, tokens, last, heap, lock, loc, nAcq, nPen, penFloor, bank, single, hist>>

\* a thread making one call of a function wrapped by the decorator
NextRetry ==
    \/ \E t \in Invokers, m \in 1..MaxAttemptsArg, kw \in KwargsArgs : RwStart(t, m, kw)
    \/ \E t \in Invokers : RwCallOk(t)
    \/ \E t \in Invokers, e \in ErrorMessages : RwCallFails(t, e)
    \/ \E t \in Invokers : RwRaise(t)
    \/ \E t \in Invokers : RwPenalize(t)
    \/ \E t \in Invokers : PenCommit(t)
    \/ \E t \in Invokers : RwSleep(t)
    \/ \E t \in Invokers : RwWake(t)
    \/ Tick

SpecRetry == Init /\ [][NextRetry]_vars

\* ---------------------------------------------------------------- claims
\* thread t has left the critical section of the acquire its locals describe
Acquired(t) == pc[t] \in {"acq_unlocked", "acq_sleeping", "acq_ret"}

\* the acquire in t's locals ran on a pool on which no time had passed since
\* construction and no penalize_key had been called
Immediate(t) == Acquired(t) /\ loc[t].now = Epoch /\ loc[t].pens = 0

\* C1: in every reachable state every key's token count is between 0 and capacity
TokenBound == \A i \in KeyIdx : 0 <= tokens[i] /\ tokens[i] <= Capacity

TokenBoundWitness ==
    /\ nPen > 0
    /\ \E i \in KeyIdx : tokens[i] = 0
    /\ \E i \in KeyIdx : last[i] > Epoch /\ tokens[i] = Capacity - 1

\* C2: whenever the pool lock is free the heap holds exactly one entry per key
\* index 0..N-1, none duplicated and none lost
OneEntryPerKey ==
    lock = Free =>
        /\ Len(heap) = NumKeys
        /\ \A i \in KeyIdx : Cardinality({k \in 1..Len(heap) : heap[k][2] = i}) = 1

OneEntryPerKeyWitness ==
    /\ lock = Free
    /\ nPen > 0
    /\ \A t \in Threads : Acquired(t)

\* C3: on a fresh pool, with no time passing and no penalize, each of the first
\* capacity * N acquires computes no wait and does not sleep
BurstAdmission ==
    \A t \in Threads :
        (Immediate(t) /\ loc[t].ord <= Capacity * NumKeys) =>
            /\ pc[t] # "acq_sleeping"
            /\ pc[t] # "acq_unlocked" => loc[t].wait_heap + loc[t].wait_extra = 0

BurstAdmissionWitness ==
    \E t \in Threads :
        Immediate(t) /\ pc[t] = "acq_ret" /\ loc[t].ord = Capacity * NumKeys

\* C4: the acquire after those capacity * N, still with no time passed, waits
\* 60 / capacity seconds, and does not return before they have passed
ForcedWait ==
    \A t \in Threads :
        (Immediate(t) /\ loc[t].ord = Capacity * NumKeys + 1) =>
            /\ loc[t].wait_heap + loc[t].wait_extra = Window \div Capacity
            /\ pc[t] = "acq_sleeping" => loc[t].wake >= Epoch + (Window \div Capacity)
            /\ pc[t] = "acq_ret" => clock >= Epoch + (Window \div Capacity)

ForcedWaitWitness ==
    \E t \in Threads :
        Immediate(t) /\ pc[t] = "acq_ret" /\ loc[t].ord = Capacity * NumKeys + 1

Max3(a, b, c) == Max2(Max2(a, b), c)

\* C5, as stated: once penalize_key(i, s) has run, no acquire selects key i
\* (pops it under the lock) before s seconds past the latest available_at that
\* any key had when the penalty was applied
PenaltyOrderingSelected ==
    \A t \in Threads :
        (pc[t] = "acq_cs" /\ loc[t].floor > 0) => loc[t].now >= loc[t].floor

\* C5, amended: once penalize_key(i, s) has run, no acquire returns key i to
\* its caller before s seconds past the latest available_at that any key had
\* when the penalty was applied
PenaltyOrderingReturned ==
    \A t \in Threads :
        (pc[t] = "acq_ret" /\ loc[t].floor > 0) => clock >= loc[t].floor

\* key i selected before its penalty ran out, with a token in its bucket
PenaltyOrderingWitness ==
    \E t \in Threads :
        /\ pc[t] = "acq_ret"
        /\ loc[t].floor > loc[t].now
        /\ loc[t].wait_extra = 0
        /\ tokens[loc[t].idx] = Capacity - 1

\* C6: penalize_key(i, s) with s > 0 leaves key i's available_at at
\* max(its value, now, the latest available_at of any key) + s, strictly later
\* than every other key's
PenalizeMakesWorst ==
    [][\A t \in Threads :
         (pc[t] = "pen_cs" /\ pc'[t] = "pen_ret" /\ loc[t].pen_idx \in KeyIdx) =>
            LET i == loc[t].pen_idx
            IN  /\ AvailableOf(heap', i) =
                     Max3(AvailableOf(heap, i), loc[t].now, Busiest(heap))
                       + loc[t].seconds
                /\ \A j \in KeyIdx \ {i} :
                     AvailableOf(heap', j) < AvailableOf(heap', i)]_vars

PenalizeMakesWorstWitness ==
    \E t \in Threads :
        /\ pc[t] = "pen_ret"
        /\ loc[t].pen_idx \in KeyIdx
        /\ loc[t].seconds > 0
        /\ AvailableOf(heap, loc[t].pen_idx) > loc[t].now + loc[t].seconds
        /\ \A j \in KeyIdx \ {loc[t].pen_idx} :
             AvailableOf(heap, j) < AvailableOf(heap, loc[t].pen_idx)

\* C7: the entry an acquire removes under the lock has the smallest
\* available_at of all entries, the lowest index among equals
EarliestAvailableFirst ==
    \A t \in Threads :
        pc[t] = "acq_cs" =>
            \A k \in 1..Len(heap) :
                \/ loc[t].available_at < heap[k][1]
                \/ loc[t].available_at = heap[k][1] /\ loc[t].idx < heap[k][2]

\* a later index chosen because it is available earlier
EarliestAvailableFirstWitness ==
    \E t \in Threads :
        /\ pc[t] = "acq_cs"
        /\ loc[t].available_at >= Epoch
        /\ \E k \in 1..Len(heap) :
             heap[k][2] < loc[t].idx /\ heap[k][1] > loc[t].available_at

\* C8: an acquire returns no earlier than the available_at its key was popped
\* with, and between leaving the lock and returning it only sleeps, for
\* wait_heap + wait_extra, without touching the pool
NotBeforeScheduled ==
    \A t \in Threads : pc[t] = "acq_ret" => clock >= loc[t].available_at

ComputedSleep ==
    \A t \in Threads :
        (pc[t] \in {"acq_unlocked", "acq_sleeping"} /\ pc'[t] # pc[t]) =>
            /\ UNCHANGED <<tokens, last, heap, lock>>
            /\ pc'[t] = "acq_sleeping" =>
                 loc'[t].wake = clock + loc[t].wait_heap + loc[t].wait_extra
            /\ (pc[t] = "acq_unlocked" /\ pc'[t] = "acq_ret") =>
                 loc[t].wait_heap + loc[t].wait_extra = 0

HandedOutOnSchedule == []NotBeforeScheduled /\ [][ComputedSleep]_vars

HandedOutOnScheduleWitness ==
    \E t \in Threads :
        /\ pc[t] = "acq_ret"
        /\ loc[t].wait_heap > 0
        /\ loc[t].available_at > loc[t].now
        /\ clock >= loc[t].available_at

\* C9: the pool lock is held only inside the two critical sections, each of
\* which its holder can always finish at once; a thread that is sleeping in
\* get_key_with_index, or has returned from it and is in the external call,
\* does not hold it
LockOnlyForBookkeeping ==
    \A t \in Threads :
        /\ lock = t => /\ pc[t] \in {"acq_cs", "pen_cs"}
                       /\ ENABLED (AcqUpdate(t) \/ PenCommit(t))
        /\ pc[t] \in {"acq_unlocked", "acq_sleeping", "acq_ret", "except"} => lock # t

\* another thread inside the pool while the requesting thread sleeps
LockOnlyForBookkeepingWitness ==
    \E t \in Invokers, u \in Callers :
        /\ pc[t] = "acq_sleeping"
        /\ clock < loc[t].wake
        /\ lock = u

\* C10: a request whose first external call fails with a rate-limit error goes
\* on to a second attempt, and if that one succeeds the request has made 2
\* external calls, penalized once, the key of the first attempt, and returns
\* the successful result
RetrySuccessPath ==
    \A t \in Threads :
        /\ inv[t].outs = <<"Rate limit reached">> => pc[t] \notin {"succeeded", "failed"}
        /\ inv[t].outs = <<"Rate limit reached", "ok">> =>
             /\ pc[t] = "succeeded"
             /\ inv[t].result = "ok"
             /\ Len(inv[t].keys) = 2
             /\ inv[t].pens = <<inv[t].keys[1]>>

RetrySuccessPathWitness ==
    \E t \in Threads :
        /\ inv[t].outs = <<"Rate limit reached", "ok">>
        /\ pc[t] = "succeeded"
        /\ inv[t].keys[2] # inv[t].keys[1]

\* every external call of the request so far failed with a timeout
AllTimedOut(t) ==
    /\ inv[t].outs # <<>>
    /\ \A k \in 1..Len(inv[t].outs) : inv[t].outs[k] = "Request timed out."

ConnectionErrorRetried ==
    \A t \in Invokers :
        LET n == Len(inv[t].outs)
        IN  (n > 0 /\ n < MaxAttempts /\ inv[t].outs[n] = "Connection error.") =>
                pc[t] # "failed"

\* the request of t has just had, or has had, a successful external call
LastCallOk(t) ==
    inv[t].outs # <<>> /\ inv[t].outs[Len(inv[t].outs)] = "ok"

\* C14: an external call that returns ends the request in success without a
\* penalize_key call: the return itself changes nothing in the pool, the
\* penalize calls of the request are those of its failed attempts, none is
\* pending, and a key only this request has touched keeps the available_at
\* its acquire pushed
SucceededUnpenalized ==
    \A t \in Invokers :
        LastCallOk(t) =>
            /\ pc[t] = "succeeded"
            /\ inv[t].pens = SubSeq(inv[t].keys, 1, Len(inv[t].keys) - 1)
            /\ ~ ENABLED InvPenalize(t)
            /\ (nAcq = 1 /\ nPen = 0) =>
                 AvailableOf(heap, inv[t].keys[1]) = loc[t].now

ReturnLeavesPool ==
    \A t \in Invokers :
        (LastCallOk(t)' /\ inv'[t].outs # inv[t].outs) =>
            UNCHANGED <<tokens, last, heap, lock, nPen, penFloor>>

NoPenaltyOnSuccess == []SucceededUnpenalized /\ [][ReturnLeavesPool]_vars

\* success at the first attempt, on a pool nothing else has touched
NoPenaltyOnSuccessWitness ==
    \E t \in Invokers :
        /\ pc[t] = "succeeded"
        /\ inv[t].outs = <<"ok">>
        /\ inv[t].pens = <<>>
        /\ nAcq = 1 /\ nPen = 0
        /\ clock > loc[t].now
        /\ AvailableOf(heap, inv[t].keys[1]) = loc[t].now

\* C15: a request goes through attempts 1, 2, ... in order, never beyond
\* attempt 3 and never with more than 3 external calls; it ends in exactly one
\* of success and failure, after the call of its last attempt, and stays there;
\* after a failed call's penalty exactly one of retry and raise is possible
AttemptsBounded ==
    \A t \in Invokers :
        /\ inv[t].attempt \in 0..3
        /\ pc[t] = "idle" <=> inv[t].attempt = 0
        /\ Len(inv[t].outs) <= 3
        /\ Len(inv[t].keys) = Len(inv[t].outs)
        /\ inv[t].attempt > 0 =>
             Len(inv[t].outs) \in {inv[t].attempt - 1, inv[t].attempt}
        /\ pc[t] \in {"succeeded", "failed"} =>
             /\ Len(inv[t].outs) = inv[t].attempt
             /\ pc[t] = "succeeded" <=> inv[t].result = "ok"
             /\ pc[t] = "failed" <=> inv[t].result \in ErrorMessages
        /\ pc[t] \notin {"succeeded", "failed"} => inv[t].result = "none"
        /\ pc[t] = "acq_ret" => ENABLED CallOk(t)
        /\ pc[t] = "pen_ret" => (ENABLED InvRetry(t)) # (ENABLED InvRaise(t))

AttemptsInOrder ==
    \A t \in Invokers :
        /\ inv'[t].attempt \in {inv[t].attempt, inv[t].attempt + 1}
        /\ inv'[t].attempt # inv[t].attempt =>
             /\ pc'[t] = "attempting"
             /\ Len(inv[t].outs) = inv[t].attempt
        /\ Len(inv'[t].outs) # Len(inv[t].outs) =>
             Len(inv'[t].outs) = inv[t].attempt
        /\ pc[t] \in {"succeeded", "failed"} =>
             pc'[t] = pc[t] /\ inv'[t] = inv[t]

BoundedStateMachine == []AttemptsBounded /\ [][AttemptsInOrder]_vars

\* both ends of the machine: a failure that used every attempt
BoundedStateMachineWitness ==
    \E t \in Invokers :
        /\ pc[t] = "failed"
        /\ inv[t].attempt = 3
        /\ inv[t].outs[1] # inv[t].outs[3]

\* C16, as stated: with 2 or more keys, the key acquired for the attempt after
\* a retryable failure is never the key that failed and was penalized,
\* whatever the other threads do to the pool in between
RetryOnAnotherKey ==
    \A t \in Invokers :
        \A k \in 1..(Len(inv[t].keys) - 1) :
            IsRetryable(inv[t].outs[k]) => inv[t].keys[k + 1] # inv[t].keys[k]

\* the request of t ended in failure: what it raised is the error of its last
\* external call, not a result, and chat() reports it as an error
LastErrorRaised(t) ==
    /\ inv[t].outs # <<>>
    /\ inv[t].result = inv[t].outs[Len(inv[t].outs)]
    /\ inv[t].result \in ErrorMessages
    /\ ~IsRetryable(inv[t].result) \/ inv[t].attempt = 3
    /\ ChatError(inv[t].result).status = "error"
    /\ ChatError(inv[t].result).error[2] = inv[t].result

\* the pieces of text the caller gets: str(e) and the error text of chat()
FailureTexts(t) ==
    {inv[t].result} \cup
    {ChatError(inv[t].result).error[k] : k \in 1..Len(ChatError(inv[t].result).error)}

OnePerKey(h) ==
    /\ Len(h) = NumKeys
    /\ \A i \in KeyIdx : Cardinality({k \in 1..Len(h) : h[k][2] = i}) = 1

\* C18: penalize_key, for every index, in range or not, and every seconds,
\* positive or not, is accepted, has no path that raises and none that waits
\* for the clock: once it has the lock it can finish at once, it leaves time,
\* tokens and last alone, and the heap it leaves holds one entry per key, the
\* same entries when the index is out of range or seconds is not positive
PenalizeAccepted ==
    \A t \in Threads :
        /\ (pc[t] = "idle" /\ nPen < MaxPen) =>
             \A i \in PenIdx, s \in PenSeconds :
                 IF s <= 0 THEN ENABLED DirectPenalizeSkip(t, i, s)
                 ELSE lock = Free => ENABLED DirectPenalize(t, i, s)
        /\ pc[t] = "pen_cs" =>
             /\ ENABLED PenCommit(t)
             /\ OnePerKey(loc[t].new_heap)
             /\ loc[t].pen_idx \notin KeyIdx => loc[t].new_heap = heap
        /\ (pc[t] = "pen_ret" /\ lock = Free) => OnePerKey(heap)

PenalizeReturns ==
    \A t \in Threads :
        (pc[t] \in {"idle", "pen_cs"} /\ pc'[t] = "pen_ret") =>
            /\ UNCHANGED <<clock, tokens, last>>
            /\ pc[t] = "pen_cs" => OnePerKey(heap')
            /\ (loc'[t].pen_idx \notin KeyIdx \/ loc'[t].seconds <= 0) => heap' = heap

PenalizeNeverFails == []PenalizeAccepted /\ [][PenalizeReturns]_vars

\* a penalty for an index the pool does not have has returned, on a pool in use
PenalizeNeverFailsWitness ==
    \E t \in Threads :
        /\ pc[t] = "pen_ret"
        /\ loc[t].pen_idx \notin KeyIdx
        /\ loc[t].seconds > 0
        /\ lock = Free
        /\ nAcq > 0
        /\ OnePerKey(heap)

\* thread t holds the result of a peek
Peeked(t) == pc[t] \in {"peek_time_ret", "peek_key_ret"}

\* u's acquire is the first pool call after t's peek
NextAfterPeek(t, u) ==
    /\ Peeked(t)
    /\ pc[u] \in {"acq_cs", "acq_unlocked", "acq_sleeping", "acq_ret"}
    /\ loc[u].ord = loc[t].ord + 1
    /\ loc[u].pens = loc[t].pens

\* C19: peek_best_time and peek_best_key change nothing in the pool, and what
\* they return is the available_at, respectively the key, of the entry that
\* the next acquire removes, if no other pool call comes in between
PeekIsNextAcquire ==
    \A t \in Threads, u \in Threads :
        NextAfterPeek(t, u) =>
            /\ pc[t] = "peek_time_ret" => loc[t].next_time = loc[u].available_at
            /\ pc[t] = "peek_key_ret" => loc[t].key = loc[u].key

PeekLeavesPool ==
    \A t \in Threads :
        (~Peeked(t) /\ Peeked(t)') =>
            /\ UNCHANGED <<clock, tokens, last, heap, lock, nAcq, nPen>>
            /\ pc'[t] = "peek_time_ret" => loc'[t].next_time = HeapTop(heap)[1]
            /\ pc'[t] = "peek_key_ret" => loc'[t].key = HeapTop(heap)[3]

PeekNonMutating == []PeekIsNextAcquire /\ [][PeekLeavesPool]_vars

\* a peek on a pool in use, then the acquire that takes the entry peeked at,
\* which is not the entry of key 0
PeekNonMutatingWitness ==
    \E t \in Threads, u \in Threads :
        /\ NextAfterPeek(t, u)
        /\ pc[t] = "peek_time_ret"
        /\ loc[t].next_time >= Epoch
        /\ loc[u].idx # 0
        /\ loc[u].pens > 0

\* the constructor refuses an empty list of keys, and only that
EmptyListRefused ==
    /\ bank.built = "yes" => bank.keys >= 1
    /\ bank.built = "ValueError" => heap = <<>> /\ \A t \in Threads : pc[t] = "idle"

\* what an acquire returns is a configured index and the secret configured there
ReturnsConfiguredKey ==
    \A t \in Threads :
        pc[t] = "acq_ret" =>
            /\ 0 <= loc[t].idx /\ loc[t].idx < bank.keys
            /\ loc[t].key = KeyOf(loc[t].idx)

\* C20, as stated: a pool cannot be constructed from an empty list of keys,
\* and on a pool that was constructed, from 1 key or more, no acquire raises
\* and each returns an index in 0..N-1 with the secret configured at that index
AcquireNeverFails ==
    /\ EmptyListRefused
    /\ ReturnsConfiguredKey
    /\ \A t \in Threads : pc[t] # "acq_raised"

\* C21: however the calls of get_keybank interleave, at most one KeyBank is
\* ever constructed, it stays the module's singleton, and every call that
\* returns gives that object; a call fails only when from_env finds no key
SingleInstance ==
    /\ single.made <= 1
    /\ single.instance = single.made
    /\ \A t \in Threads :
         /\ pc[t] = "gk_ret" => single.instance = 1
         /\ \A k \in 1..Len(single.got[t]) :
              /\ single.got[t][k] \in {0, 1}
              /\ single.got[t][k] = 0 => single.env.keys = 0

\* a thread that saw no singleton finds, under the lock, the one another
\* thread has made and already got
SingleInstanceWitness ==
    \E t \in Threads, u \in Threads :
        /\ single.got[t] = <<1>>
        /\ single.got[u] = <<>>
        /\ pc[u] = "gk_locked"
        /\ bank.built = "yes"

\* ---- C22
\* the step is a hand-out of key i to an acquire that found the key without
\* tokens and came no later than its scheduled time, the hand-out of i before
\* it having been one of that kind too
SteadyHandOut(i) ==
    /\ hist'[i].n = hist[i].n + 1
    /\ hist[i].slot
    /\ hist'[i].slot

\* C22: under sustained load, when the burst of a key is used up and every
\* acquire of it comes no later than the key's scheduled time, consecutive
\* hand-outs of the key are exactly 1 / refill_rate apart, so that capacity
\* hand-outs of the key take the 60-second window
SustainedThroughput ==
    [][\A i \in KeyIdx :
          SteadyHandOut(i) =>
              /\ hist'[i].at = hist[i].at + InvRate
              /\ bank.capacity_int * (hist'[i].at - hist[i].at) = Window]_vars

\* a key handed out capacity times in a burst and then at two scheduled times
SustainedThroughputWitness ==
    \E i \in KeyIdx :
        /\ hist[i].n = Capacity + 2
        /\ hist[i].slot
        /\ hist[i].at = Epoch + 2 * InvRate
        /\ tokens[i] = 0

\* ---- C23
\* C23: right after construction with N keys, before any acquire, every key has
\* tokens = capacity, the heap holds one entry per index 0..N-1 in that order,
\* each with an available_at that is not in the future, last_refill_time is
\* not in the future either, and tokens accrue at capacity per 60 seconds
InitialState ==
    (bank.built = "yes" /\ nAcq = 0) =>
        /\ DOMAIN tokens = 0..(bank.keys - 1)
        /\ DOMAIN last = 0..(bank.keys - 1)
        /\ Len(heap) = bank.keys
        /\ \A i \in 0..(bank.keys - 1) :
              /\ tokens[i] = bank.capacity_int
              /\ last[i] <= clock
              /\ heap[i + 1] = <<0, i, KeyOf(i)>>
              /\ heap[i + 1][1] <= clock
              /\ Accrued(last[i] + Window, last[i]) = bank.capacity_int

\* a pool of NumKeys keys constructed one tick after the start, not yet used
InitialStateWitness ==
    /\ bank.built = "yes"
    /\ nAcq = 0
    /\ bank.keys = NumKeys
    /\ bank.capacity_int = Capacity
    /\ last[NumKeys - 1] = Epoch + TickStep
    /\ tokens[NumKeys - 1] = Capacity

\* ---- C24
\* the rate and the interval that from_env passes to the constructor
GivenRate == EnvRate(single.env.rate)
GivenInterval == EnvInterval(single.env.interval)

FloorOfProduct(elapsed) ==
    CHOOSE a \in 0..(elapsed + 1) * bank.capacity_int :
        /\ a * Window <= elapsed * bank.capacity_int
        /\ elapsed * bank.capacity_int < (a + 1) * Window

\* what the refill step of thread t's acquire leaves in tokens and in
\* last_refill_time of the key it popped, according to the claim
RefillResult(t) ==
    LET idx == loc[t].idx
        now == Max2(loc[t].now, loc[t].available_at)
        elapsed == Max2(0, now - last[idx])
        accrued == FloorOfProduct(elapsed)
    IN  IF accrued > 0
        THEN [tokens |-> Min2(bank.capacity_int, tokens[idx] + accrued),
              last |-> last[idx] + (accrued * Window) \div bank.capacity_int,
              now |-> now, accrued |-> accrued]
        ELSE [tokens |-> tokens[idx], last |-> last[idx],
              now |-> now, accrued |-> accrued]

\* C25: the refill step of acquire credits accrued = floor(elapsed * rate)
\* whole tokens, elapsed = max(0, now - last_refill_time): with accrued > 0
\* tokens becomes min(capacity, tokens + accrued), last_refill_time advances by
\* accrued / rate and ends within one token period before now; with
\* accrued = 0 both are left alone. The step that follows takes one token from
\* that result, or reserves the next one when the result is 0
RefillStep ==
    [][\A t \in Threads :
          (pc[t] = "acq_cs" /\ pc'[t] = "acq_unlocked") =>
              LET r == RefillResult(t)
                  idx == loc[t].idx
              IN  /\ r.tokens >= 1 =>
                        /\ tokens'[idx] = r.tokens - 1
                        /\ last'[idx] = r.last
                  /\ r.tokens = 0 =>
                        /\ tokens'[idx] = 0
                        /\ last'[idx] = r.last + InvRate
                  /\ r.accrued > 0 =>
                        /\ 0 <= r.now - r.last
                        /\ r.now - r.last < InvRate]_vars

\* the first acquire of a pool comes one token period after construction:
\* one token accrued, the bucket was full already, last_refill_time moved on
RefillStepWitness ==
    \E t \in Threads :
        /\ pc[t] = "acq_unlocked"
        /\ nAcq = 1
        /\ bank.capacity_int = Capacity
        /\ loc[t].now = Epoch + InvRate
        /\ last[loc[t].idx] = Epoch + InvRate
        /\ tokens[loc[t].idx] = Capacity - 1

\* ---- C26
\* C26: when the key popped has tokens >= 1 after the refill, the acquire takes
\* exactly one token and adds no wait of its own; the key's entry is pushed
\* back with available_at = now (the scheduled time, when now was advanced to
\* it) if a token is left, and last_refill_time + 1 / rate otherwise
ConsumeBranch ==
    [][\A t \in Threads :
          (/\ pc[t] = "acq_cs"
           /\ pc'[t] = "acq_unlocked"
           /\ RefillResult(t).tokens >= 1) =>
              LET r == RefillResult(t)
                  idx == loc[t].idx
              IN  /\ tokens'[idx] = r.tokens - 1
                  /\ loc'[t].wait_extra = 0
                  /\ last'[idx] = r.last
                  /\ AvailableOf(heap', idx) =
                        IF tokens'[idx] >= 1 THEN r.now ELSE r.last + InvRate]_vars

\* an acquire that had to wait for the scheduled time took the token accrued
\* by then, the last one: no extra wait, the key is due one period later
ConsumeBranchWitness ==
    \E t \in Threads :
        /\ pc[t] = "acq_unlocked"
        /\ loc[t].wait_heap > 0
        /\ loc[t].wait_extra = 0
        /\ tokens[loc[t].idx] = 0
        /\ last[loc[t].idx] = loc[t].available_at
        /\ AvailableOf(heap, loc[t].idx) = loc[t].available_at + InvRate

\* ---- C27
\* C27: when the key popped has no token after the refill, the acquire adds a
\* wait of (last_refill_time + 1 / rate) - now, which is not negative (the
\* caller sleeps until last_refill_time + 1 / rate in all), sets
\* last_refill_time to that instant, pushes the key's entry back with that
\* instant as available_at, and leaves tokens at 0
DepletedBranch ==
    [][\A t \in Threads :
          (/\ pc[t] = "acq_cs"
           /\ pc'[t] = "acq_unlocked"
           /\ loc'[t].refilled = 0) =>
              LET idx == loc[t].idx
                  now == Max2(loc[t].now, loc[t].available_at)
                  reserved == last[idx] + InvRate
              IN  /\ reserved - now >= 0
                  /\ loc'[t].wait_extra = reserved - now
                  /\ loc'[t].wait_heap + loc'[t].wait_extra = reserved - loc[t].now
                  /\ last'[idx] = reserved
                  /\ AvailableOf(heap', idx) = reserved
                  /\ tokens'[idx] = 0]_vars

\* an acquire that found the key without a token at the instant reserved by
\* the acquire before it: it waits one whole period for the next token
DepletedBranchWitness ==
    \E t \in Threads :
        /\ pc[t] = "acq_unlocked"
        /\ loc[t].refilled = 0
        /\ loc[t].wait_extra = InvRate
        /\ tokens[loc[t].idx] = 0
        /\ last[loc[t].idx] = loc[t].available_at + InvRate
        /\ AvailableOf(heap, loc[t].idx) = last[loc[t].idx]

\* ---- C28
\* the key and the wait that the pool state and the clock read determine for
\* the acquire that pops the heap h at the instant now
Suspension(h, tok, lst, now) ==
    LET e == h[1]
        idx == e[2]
        at == Max2(now, e[1])
        elapsed == Max2(0, at - lst[idx])
        accrued == (elapsed * bank.capacity_int) \div Window
        refilled == IF accrued > 0
                    THEN Min2(bank.capacity_int, tok[idx] + accrued)
                    ELSE tok[idx]
        lastr == IF accrued > 0
                 THEN lst[idx] + (accrued * Window) \div bank.capacity_int
                 ELSE lst[idx]
    IN  [idx |-> idx, key |-> e[3],
         wait |-> (at - now) + IF refilled >= 1 THEN 0
                               ELSE Max2(0, lastr + InvRate - at)]

\* thread t is past the critical section of an acquire that has not returned
Suspended(t) == pc[t] \in {"acq_unlocked", "acq_sleeping", "acq_ret"}

\* C28: the key an acquire returns and the time it sleeps are determined by
\* the pool state (tokens, last_refill_time, heap) and the clock read under
\* the lock: nothing changes the pool between the pop and the push, the key
\* and the wait are those the state gives, the sleep lasts exactly that wait,
\* and what other threads do once the lock is left changes neither
DeterministicSuspension ==
    [][\A t \in Threads :
          /\ (pc[t] = "idle" /\ pc'[t] = "acq_cs") =>
                LET s == Suspension(heap, tokens, last, clock)
                IN  /\ loc'[t].idx = s.idx
                    /\ loc'[t].key = s.key
                    /\ loc'[t].now = clock
                    /\ loc'[t].available_at = heap[1][1]
                    /\ heap' = Tail(heap)
          /\ (pc[t] = "acq_cs" /\ pc'[t] = "acq_cs") =>
                UNCHANGED <<tokens, last, heap, loc[t]>>
          /\ (pc[t] = "acq_cs" /\ pc'[t] = "acq_unlocked") =>
                LET h == <<<<loc[t].available_at, loc[t].idx, loc[t].key>>>>
                    s == Suspension(h, tokens, last, loc[t].now)
                IN  /\ loc'[t].key = s.key
                    /\ loc'[t].wait_heap + loc'[t].wait_extra = s.wait
          /\ (Suspended(t) /\ Suspended(t)') =>
                /\ loc'[t].key = loc[t].key
                /\ loc'[t].idx = loc[t].idx
                /\ loc'[t].wait_heap = loc[t].wait_heap
                /\ loc'[t].wait_extra = loc[t].wait_extra
          /\ (pc[t] = "acq_unlocked" /\ pc'[t] = "acq_sleeping") =>
                loc'[t].wake = clock + loc[t].wait_heap + loc[t].wait_extra
          /\ (pc[t] = "acq_unlocked" /\ pc'[t] = "acq_ret") =>
                loc[t].wait_heap + loc[t].wait_extra = 0
          /\ (pc[t] = "acq_sleeping" /\ pc'[t] = "acq_sleeping") =>
                loc'[t].wake = loc[t].wake]_vars

\* a thread sleeps for the wait it computed while another thread has since
\* penalized the key it was given
DeterministicSuspensionWitness ==
    \E t, u \in Threads :
        /\ pc[t] = "acq_sleeping"
        /\ loc[t].wait_heap + loc[t].wait_extra > 0
        /\ loc[t].wake = loc[t].now + loc[t].wait_heap + loc[t].wait_extra
        /\ pc[u] = "pen_ret"
        /\ loc[u].pen_idx = loc[t].idx
        /\ loc[u].seconds > 0
        /\ nPen > loc[t].pens
        /\ AvailableOf(heap, loc[t].idx) > loc[t].wake

\* ---- C29
\* the external calls of thread t's request that have failed so far
RECURSIVE Failures(_)
Failures(outs) ==
    IF outs = <<>> THEN 0
    ELSE (IF Head(outs) = "ok" THEN 0 ELSE 1) + Failures(Tail(outs))

\* C29: whatever the outcomes of the external calls, a request calls
\* penalize_key once for each external call that failed, with the index it
\* acquired for that attempt and the fixed duration: the penalize of the
\* latest failure is pending, in progress or done, those before it are done,
\* and a request that has ended has made no other penalize call
OnePenalizePerFailure ==
    \A t \in Invokers :
        LET f == Failures(inv[t].outs)
            n == Len(inv[t].pens)
        IN  /\ pc[t] = "except" => n = f - 1
            /\ pc[t] # "except" => n = f
            /\ \A k \in 1..n : /\ inv[t].outs[k] # "ok"
                               /\ inv[t].pens[k] = inv[t].keys[k]
            /\ pc[t] \in {"pen_cs", "pen_ret"} =>
                  /\ loc[t].pen_idx = inv[t].keys[Len(inv[t].keys)]
                  /\ loc[t].seconds = FixedPenalty
            /\ pc[t] = "failed" => n = Len(inv[t].outs)
            /\ pc[t] = "succeeded" => n = Len(inv[t].outs) - 1

\* a request that failed on its second call, the first error being one that
\* is retried and the second one that is not: two penalize calls, one per key
OnePenalizePerFailureWitness ==
    \E t \in Invokers :
        /\ pc[t] = "failed"
        /\ Len(inv[t].outs) = 2
        /\ IsRetryable(inv[t].outs[1])
        /\ ~IsRetryable(inv[t].outs[2])
        /\ inv[t].pens = inv[t].keys

\* ---- C30
\* capacity + floor((t - t0) * refill_rate), t0 being the construction time
TokensBy(t) == bank.capacity_int + ((t - Epoch) * bank.capacity_int) \div Window

\* C30: for every key, whatever acquires and penalize calls interleave, the
\* hand-outs of the key up to the one that lets its caller go at instant t
\* are at most capacity + floor((t - t0) * rate); every hand-out is paid for
\* by a token of its own: the hand-outs and the tokens left never exceed what
\* the bucket held at t0 plus what accrued up to last_refill_time, which is
\* not later than the instant the latest caller is let go
TokenBucketRateBound ==
    \A i \in KeyIdx :
        /\ hist[i].n + tokens[i] <= TokensBy(last[i])
        /\ hist[i].n >= 1 =>
              /\ last[i] <= hist[i].at
              /\ hist[i].n <= TokensBy(hist[i].at)
        /\ \A t \in Threads :
              (pc[t] = "acq_ret" /\ loc[t].idx = i) =>
                  clock >= loc[t].now + loc[t].wait_heap + loc[t].wait_extra

\* a key handed out capacity + 1 times, the last caller let go one period
\* after the start, while a penalty was put on some key
TokenBucketRateBoundWitness ==
    \E i, j \in KeyIdx :
        /\ hist[i].n = Capacity + 1
        /\ hist[i].at = Epoch + InvRate
        /\ tokens[i] = 0
        /\ penFloor[j] > 0

\* ---- C31
\* C31: the available_at of a key never decreases: a step that leaves the
\* key's entry in the heap leaves its time or raises it, the acquire that
\* popped an entry pushes the key back with a time that is not earlier than the
\* one popped, and a penalize that takes effect raises the time of its key
MonotoneAvailability ==
    [][/\ \A i \in KeyIdx :
             (AvailableOf(heap, i) # -1 /\ AvailableOf(heap', i) # -1) =>
                 AvailableOf(heap', i) >= AvailableOf(heap, i)
       /\ \A t \in Threads :
             /\ (pc[t] = "acq_cs" /\ pc'[t] = "acq_unlocked") =>
                   AvailableOf(heap', loc[t].idx) >= loc[t].available_at
             /\ (pc[t] = "pen_cs" /\ pc'[t] = "pen_ret"
                   /\ loc[t].pen_idx \in KeyIdx
                   /\ AvailableOf(heap, loc[t].pen_idx) # -1) =>
                   AvailableOf(heap', loc[t].pen_idx) >
                       AvailableOf(heap, loc[t].pen_idx)]_vars

\* a key that had been penalized was popped at its raised time and pushed back
\* with a later one
MonotoneAvailabilityWitness ==
    \E t \in Threads :
        /\ pc[t] = "acq_unlocked"
        /\ loc[t].floor > 0
        /\ loc[t].available_at >= loc[t].floor
        /\ AvailableOf(heap, loc[t].idx) > loc[t].available_at

\* ---- C32
\* the entries of the heap h other than those of key i
EntriesBut(h, i) == {h[k] : k \in {n \in 1..Len(h) : h[n][2] # i}}

\* the key strings that the heap h holds for key i
SecretsOf(h, i) == {h[k][3] : k \in {n \in 1..Len(h) : h[n][2] = i}}

\* C32: penalize(i, s) changes nothing but the available_at of key i: tokens
\* and last_refill_time of every key stay as they are, so do the entries of
\* the other keys, the key string of i and the number of entries
PenalizeFrame ==
    [][\A t \in Threads :
          (pc[t] \in {"idle", "except", "pen_cs"} /\ pc'[t] \in {"pen_cs", "pen_ret"}) =>
              LET i == IF pc[t] = "pen_cs" THEN loc[t].pen_idx ELSE loc'[t].pen_idx
              IN  /\ tokens' = tokens
                  /\ last' = last
                  /\ EntriesBut(heap', i) = EntriesBut(heap, i)
                  /\ SecretsOf(heap', i) = SecretsOf(heap, i)
                  /\ Len(heap') = Len(heap)]_vars

\* a penalize of key i has returned: i is at its penalty time, another key
\* still has the entry it was constructed with, no bucket was touched
PenalizeFrameWitness ==
    \E t \in Threads, i, j \in KeyIdx :
        /\ pc[t] = "pen_ret"
        /\ loc[t].seconds > 0
        /\ loc[t].pen_idx = i
        /\ j # i
        /\ AvailableOf(heap, i) = penFloor[i]
        /\ penFloor[i] > 0
        /\ AvailableOf(heap, j) = 0
        /\ tokens = InitTokens

\* ---- C33
\* C33: penalize(i, s) with s <= 0 returns at once and leaves the pool as it
\* is: tokens, last_refill_time, every heap entry and the lock
PenalizeNoOp ==
    [][/\ \A t \in Threads :
          (pc[t] = "idle" /\ pc'[t] = "pen_ret") =>
              /\ loc'[t].seconds <= 0
              /\ UNCHANGED <<tokens, last, heap, lock, penFloor>>
       /\ \A t \in Threads :
          (pc[t] = "idle" /\ pc'[t] = "pen_cs") => loc'[t].seconds > 0]_vars

\* penalize(i, s) with s <= 0 has returned while the time of key i lies before
\* now and before the time of another key
PenalizeNoOpWitness ==
    \E t \in Threads, i, j \in KeyIdx :
        /\ pc[t] = "pen_ret"
        /\ loc[t].seconds <= 0
        /\ loc[t].pen_idx = i
        /\ AvailableOf(heap, i) # -1
        /\ AvailableOf(heap, i) < clock
        /\ AvailableOf(heap, j) > AvailableOf(heap, i)

\* ---- C34
\* thread t's acquire has popped a key and gone through the refill
Refilled(t) ==
    /\ pc[t] \in {"acq_unlocked", "acq_sleeping", "acq_ret", "acq_raised"}
    /\ loc[t].ord > 0

\* C34, as stated: with exact products and a clock that never goes back, the
\* key an acquire popped has tokens >= 1 after the refill in every reachable
\* state, so that the depleted branch is never entered and the whole wait is
\* the wait for the scheduled time
DepletedNeverTaken ==
    \A t \in Threads :
        (Refilled(t) /\ bank.products = "exact") =>
            /\ loc[t].refilled >= 1
            /\ loc[t].wait_extra = 0
            /\ pc[t] # "acq_raised"

\* ---- C35
\* C35, as stated: every pool that the constructor returns has a whole capacity
\* of at least 1, whatever rate above 0 or interval it was given, so that the
\* division 1.0 / self._rate in acquire never fails
CapacityAtLeastOne ==
    bank.built = "yes" =>
        /\ bank.capacity_int >= 1
        /\ \A t \in Threads : ~(pc[t] = "acq_raised" /\ loc[t].ord > 0)

\* ---- C36
\* C36: every acquire terminates: with a lock that is granted fairly, a thread
\* that has called get_key_with_index gets the lock, computes its wait and,
\* the wait over, returns a key, whatever acquires and penalize calls the
\* other threads make meanwhile
AcquireTerminates ==
    \A t \in Threads :
        (pc[t] \in {"calling", "acq_cs", "acq_unlocked", "acq_sleeping"})
            ~> (pc[t] = "acq_ret" /\ loc[t].key = KeyOf(loc[t].idx))

\* an acquire has returned after a sleep, beyond the horizon, while penalize
\* calls were made
AcquireTerminatesWitness ==
    \E t \in Threads :
        /\ pc[t] = "acq_ret"
        /\ loc[t].wait_heap > 0
        /\ clock >= loc[t].wake
        /\ clock > Epoch + Horizon
        /\ nPen > 0

\* ---- C37
\* the penalize calls a wrapped call has made once f of its invocations have
\* failed and been followed by a retry: one each, if key_index was passed
PenalizedAfter(t, f) == IF inv[t].kwargs = <<>> THEN 0 ELSE f

\* C37: a call made through retry_with_key_rotation with max_attempts >= 1
\* invokes the wrapped function at most max_attempts times; an error that is
\* not retryable, or the error of the last attempt, is raised again without a
\* penalize; a retryable error of an earlier attempt is followed, before the
\* next invocation, by one penalize of the key that the keyword argument
\* key_index names, and by none if that argument was not passed
RotationRetry ==
    \A t \in Invokers :
        inv[t].max_attempts >= 1 =>
            LET n == Len(inv[t].outs)
                p == Len(inv[t].pens)
            IN  /\ n <= inv[t].max_attempts
                /\ \A k \in 1..p : inv[t].pens[k] = inv[t].kwargs[1]
                /\ \A k \in 1..(n - 1) : IsRetryableRotation(inv[t].outs[k])
                /\ pc[t] = "rw_try" =>
                      /\ n = inv[t].attempt
                      /\ n < inv[t].max_attempts
                      /\ p = PenalizedAfter(t, n)
                /\ pc[t] \in {"rw_except", "rw_returned", "rw_raised"} =>
                      /\ n = inv[t].attempt + 1
                      /\ p = PenalizedAfter(t, n - 1)
                /\ pc[t] = "rw_raised" =>
                      /\ inv[t].result = inv[t].outs[n]
                      /\ inv[t].result # "ok"
                      /\ ~IsRetryableRotation(inv[t].outs[n])
                            \/ n = inv[t].max_attempts
                /\ pc[t] \in {"pen_cs", "pen_ret", "rw_sleeping"} =>
                      /\ n < inv[t].max_attempts
                      /\ IsRetryableRotation(inv[t].outs[n])
                      /\ pc[t] # "pen_cs" => p = PenalizedAfter(t, n)
                /\ pc[t] \in {"pen_cs", "pen_ret"} =>
                      /\ loc[t].pen_idx = inv[t].kwargs[1]
                      /\ loc[t].seconds = PenalizeSecondsArg

\* three invocations failed with retryable errors: the third error was raised,
\* the key named by key_index was penalized after the first two only
RotationRetryWitness ==
    \E t \in Invokers :
        /\ pc[t] = "rw_raised"
        /\ inv[t].max_attempts = 3
        /\ Len(inv[t].outs) = 3
        /\ IsRetryableRotation(inv[t].outs[3])
        /\ inv[t].kwargs = <<1>>
        /\ inv[t].pens = <<1, 1>>
        /\ AvailableOf(heap, 1) > Epoch + PenalizeSecondsArg

====
